---- MODULE Spec2Model ----
(***************************************************************************)
(* Model of the tool-calling completion orchestrator and of the streaming *)
(* completion path of app/services/openai_services.py, together with the  *)
(* tool registry of app/services/tools.py.                                *)
(*                                                                         *)
(* One behaviour is one invocation of OpenAIService.get_completion or of   *)
(* OpenAIService.get_streaming_completion.  The model provider is the      *)
(* environment: it answers, fails, emits chunks.                           *)
(*                                                                         *)
(* Conventions.  Python None in a text slot is the token NoneText.  Money  *)
(* is in centavos, rates in tenths of a percent.  A JSON value is a tagged *)
(* record (Num, Str, Bool, Null); a JSON object is a function from its     *)
(* keys to such values.                                                    *)
(***************************************************************************)
EXTENDS Integers, Sequences, FiniteSets, TLC

(* ------------------------------ bounds -------------------------------- *)
MaxCalls == 2      \* tool calls per assistant response
MaxHist == 2       \* turns of conversation history
MaxChunks == 2     \* chunks emitted by one provider stream

(* --------------------------- JSON values ------------------------------ *)
NoneText == "<None>"

Num(n) == [t |-> "num", n |-> n, s |-> ""]
Str(s) == [t |-> "str", n |-> 0, s |-> s]
Bool(b) == [t |-> "bool", n |-> IF b THEN 1 ELSE 0, s |-> ""]
Null == [t |-> "null", n |-> 0, s |-> ""]

\* Python: bool is a subclass of int, so True/False take part in arithmetic
\* and comparisons as 1/0; str and None do not (TypeError).
IsNumber(v) == v.t \in {"num", "bool"}
\* Python truthiness of a JSON value
Truthy(v) == CASE v.t = "num" -> v.n # 0
               [] v.t = "bool" -> v.n # 0
               [] v.t = "str" -> v.s # ""
               [] OTHER -> FALSE

EmptyObj == [k \in {} |-> Null]

\* The text of a tool call's arguments: a JSON object, a JSON value that is
\* not an object, or text that is not JSON at all.
ObjText(o) == [valid |-> TRUE, isobj |-> TRUE, obj |-> o]
ArrayText == [valid |-> TRUE, isobj |-> FALSE, obj |-> EmptyObj]
NotJsonText == [valid |-> FALSE, isobj |-> FALSE, obj |-> EmptyObj]

\* outcome of a Python call: a returned value or a raised exception
Ok(v) == [raised |-> FALSE, exc |-> "", value |-> v]
Raise(e) == [raised |-> TRUE, exc |-> e, value |-> EmptyObj]

\* json.loads(tool_call.function.arguments)
json_loads(text) ==
    IF ~text.valid THEN [raised |-> TRUE, exc |-> "JSONDecodeError", isobj |-> FALSE, value |-> EmptyObj]
    ELSE [raised |-> FALSE, exc |-> "", isobj |-> text.isobj, value |-> text.obj]

\* json.dumps(function_response, ensure_ascii=False): the text denoting v
json_dumps(v) == [json |-> v]

(* ------------------------- app/services/tools.py ---------------------- *)
\* datetime.now() as the tools see it: month, year and strftime("%m/%Y")
Clock == {[month |-> 11, year |-> 2026, mm_yyyy |-> "11/2026"],
          [month |-> 3, year |-> 2027, mm_yyyy |-> "03/2027"]}

Faixa(ate, aliquota, deducao) == [ate |-> ate, aliquota |-> aliquota, deducao |-> deducao]

\* tabelas: aliquota in tenths of a percent, ate and deducao in reais
tabelas ==
    << [nome |-> "Anexo I - Comercio", faixas |->
          << Faixa(180000, 40, 0), Faixa(360000, 73, 5940), Faixa(720000, 95, 13860),
             Faixa(1800000, 107, 22500), Faixa(3600000, 143, 87300), Faixa(4800000, 190, 378000) >>],
       [nome |-> "Anexo II - Industria", faixas |->
          << Faixa(180000, 45, 0), Faixa(360000, 78, 5940), Faixa(720000, 100, 13860),
             Faixa(1800000, 112, 22500), Faixa(3600000, 147, 85500), Faixa(4800000, 300, 720000) >>],
       [nome |-> "Anexo III - Servicos", faixas |->
          << Faixa(180000, 60, 0), Faixa(360000, 112, 9360), Faixa(720000, 135, 17640),
             Faixa(1800000, 160, 35640), Faixa(3600000, 210, 125640), Faixa(4800000, 330, 648000) >>],
       [nome |-> "Anexo IV - Servicos", faixas |->
          << Faixa(180000, 45, 0), Faixa(360000, 90, 8100), Faixa(720000, 102, 12420),
             Faixa(1800000, 140, 39780), Faixa(3600000, 220, 183780), Faixa(4800000, 330, 828000) >>],
       [nome |-> "Anexo V - Servicos", faixas |->
          << Faixa(180000, 155, 0), Faixa(360000, 180, 4500), Faixa(720000, 195, 9900),
             Faixa(1800000, 205, 17100), Faixa(3600000, 230, 62100), Faixa(4800000, 305, 540000) >>] >>

\* for faixa in tabela["faixas"]: if receita <= faixa["ate"]: ...; break
\* (the index of the first bracket whose ceiling is >= receita, 0 if none)
faixa_aplicavel(faixas, receita) ==
    LET hits == {i \in DOMAIN faixas : receita <= faixas[i].ate}
    IN IF hits = {} THEN 0 ELSE CHOOSE i \in hits : \A j \in hits : i <= j

\* aliquota_efetiva = ((receita * aliquota / 100) - deducao) / receita * 100 is the
\* rational (receita*aliquota10 - 1000*deducao) / (10*receita), kept as num/den;
\* valor_das = receita / 12 * aliquota_efetiva / 100 is num / 12000.
calcular_das_simples_nacional(receita_bruta_12_meses, anexo, mes_referencia, now) ==
    LET mes_ref == IF mes_referencia.t = "null" THEN Str(now.mm_yyyy) ELSE mes_referencia
    IN  IF ~(IsNumber(anexo) /\ anexo.n \in DOMAIN tabelas)
        THEN Ok([erro |-> "Anexo invalido. Use 1, 2, 3, 4 ou 5.",
                 anexos_disponiveis |-> <<1, 2, 3, 4, 5>>])
        ELSE IF ~IsNumber(receita_bruta_12_meses) THEN Raise("TypeError")
        ELSE IF receita_bruta_12_meses.n > 4800000
        THEN Ok([erro |-> "Receita bruta excede o limite do Simples Nacional",
                 sugestao |-> "Empresa deve migrar para Lucro Presumido ou Lucro Real"])
        ELSE LET receita == receita_bruta_12_meses.n
                 tabela == tabelas[anexo.n]
                 ix == faixa_aplicavel(tabela.faixas, receita)
             IN  IF ix = 0 THEN Ok([erro |-> "Nao foi possivel determinar a faixa"])
                 ELSE IF receita = 0 THEN Raise("ZeroDivisionError")
                 ELSE LET faixa == tabela.faixas[ix]
                          num == receita * faixa.aliquota - 1000 * faixa.deducao
                      IN  Ok([anexo |-> anexo.n,
                              nome_anexo |-> tabela.nome,
                              mes_referencia |-> mes_ref,
                              receita_bruta_12_meses |-> receita,
                              aliquota_nominal |-> faixa.aliquota,
                              aliquota_efetiva |-> [num |-> num, den |-> 10 * receita],
                              valor_deducao |-> faixa.deducao,
                              valor_das_mensal |-> [num |-> num, den |-> 12000]])

\* (variant: the days sold are not taken off the days of rest)
calcular_ferias_full_rest(salario_bruto, dias_ferias, vende_10_dias) ==
    IF ~IsNumber(dias_ferias) THEN Raise("TypeError")
    ELSE IF dias_ferias.n < 1 \/ dias_ferias.n > 30
    THEN Ok([erro |-> "Dias de ferias deve estar entre 1 e 30"])
    ELSE IF Truthy(vende_10_dias) /\ dias_ferias.n < 30
    THEN Ok([erro |-> "Para vender 10 dias, e necessario ter direito a 30 dias de ferias"])
    ELSE IF ~IsNumber(salario_bruto) THEN Raise("TypeError")
    ELSE LET vende == Truthy(vende_10_dias)
             dias_gozo == dias_ferias.n
             dias_vendidos == IF vende THEN 10 ELSE 0
             salario == 100 * salario_bruto.n
             valor_ferias == (salario * dias_gozo) \div 30
             terco_constitucional == valor_ferias \div 3
             valor_abono == IF vende THEN (salario * dias_vendidos) \div 30 ELSE 0
             terco_abono == IF vende THEN valor_abono \div 3 ELSE 0
             total_bruto == valor_ferias + terco_constitucional + valor_abono + terco_abono
             inss == IF salario <= 141200 THEN (salario * 75) \div 1000
                     ELSE IF salario <= 266668 THEN (salario * 90) \div 1000
                     ELSE IF salario <= 400003 THEN (salario * 120) \div 1000
                     ELSE (salario * 140) \div 1000
             base_ir == total_bruto - inss
             irrf == IF base_ir > 225920
                     THEN IF base_ir <= 282665 THEN (base_ir * 75) \div 1000 - 16944
                          ELSE IF base_ir <= 375105 THEN (base_ir * 150) \div 1000 - 38144
                          ELSE IF base_ir <= 466468 THEN (base_ir * 225) \div 1000 - 66277
                          ELSE (base_ir * 275) \div 1000 - 89600
                     ELSE 0
             total_descontos == inss + irrf
         IN  Ok([salario_bruto |-> salario,
                 dias_ferias_total |-> dias_ferias.n,
                 dias_gozo |-> dias_gozo,
                 dias_vendidos |-> dias_vendidos,
                 valor_ferias |-> valor_ferias,
                 terco_constitucional |-> terco_constitucional,
                 abono_pecuniario |-> valor_abono,
                 terco_abono |-> terco_abono,
                 total_bruto |-> total_bruto,
                 inss |-> inss,
                 irrf |-> irrf,
                 total_descontos |-> total_descontos,
                 total_liquido |-> total_bruto - total_descontos])

\* amounts in centavos, rounded down; salario_bruto arrives in reais
calcular_ferias(salario_bruto, dias_ferias, vende_10_dias) ==
    IF ~IsNumber(dias_ferias) THEN Raise("TypeError")
    ELSE IF dias_ferias.n < 1 \/ dias_ferias.n > 30
    THEN Ok([erro |-> "Dias de ferias deve estar entre 1 e 30"])
    ELSE IF Truthy(vende_10_dias) /\ dias_ferias.n < 30
    THEN Ok([erro |-> "Para vender 10 dias, e necessario ter direito a 30 dias de ferias"])
    ELSE IF ~IsNumber(salario_bruto) THEN Raise("TypeError")
    ELSE LET vende == Truthy(vende_10_dias)
             dias_gozo == IF vende THEN 20 ELSE dias_ferias.n
             dias_vendidos == IF vende THEN 10 ELSE 0
             salario == 100 * salario_bruto.n
             valor_ferias == (salario * dias_gozo) \div 30
             terco_constitucional == valor_ferias \div 3
             valor_abono == IF vende THEN (salario * dias_vendidos) \div 30 ELSE 0
             terco_abono == IF vende THEN valor_abono \div 3 ELSE 0
             total_bruto == valor_ferias + terco_constitucional + valor_abono + terco_abono
             inss == IF salario <= 141200 THEN (salario * 75) \div 1000
                     ELSE IF salario <= 266668 THEN (salario * 90) \div 1000
                     ELSE IF salario <= 400003 THEN (salario * 120) \div 1000
                     ELSE (salario * 140) \div 1000
             base_ir == total_bruto - inss
             irrf == IF base_ir > 225920
                     THEN IF base_ir <= 282665 THEN (base_ir * 75) \div 1000 - 16944
                          ELSE IF base_ir <= 375105 THEN (base_ir * 150) \div 1000 - 38144
                          ELSE IF base_ir <= 466468 THEN (base_ir * 225) \div 1000 - 66277
                          ELSE (base_ir * 275) \div 1000 - 89600
                     ELSE 0
             total_descontos == inss + irrf
         IN  Ok([salario_bruto |-> salario,
                 dias_ferias_total |-> dias_ferias.n,
                 dias_gozo |-> dias_gozo,
                 dias_vendidos |-> dias_vendidos,
                 valor_ferias |-> valor_ferias,
                 terco_constitucional |-> terco_constitucional,
                 abono_pecuniario |-> valor_abono,
                 terco_abono |-> terco_abono,
                 total_bruto |-> total_bruto,
                 inss |-> inss,
                 irrf |-> irrf,
                 total_descontos |-> total_descontos,
                 total_liquido |-> total_bruto - total_descontos])

obrigacoes_mensais ==
    << "DAS - Simples Nacional", "DARF - Tributos Federais", "GPS - INSS",
       "FGTS", "SEFIP/GFIP", "DCTF Web" >>

obrigacoes_anuais ==
    << <<"13o Salario (2a Parcela)">>, <<"RAIS">>, <<"DIRF">>, <<"IRPF">>, <<"DEFIS">> >>

meses_nome ==
    << "Janeiro", "Fevereiro", "Marco", "Abril", "Maio", "Junho",
       "Julho", "Agosto", "Setembro", "Outubro", "Novembro", "Dezembro" >>

\* (variant: the total is taken before the annual obligations are added)
obter_obrigacoes_mes_counts_monthly(mes_arg, ano_arg, now) ==
    LET mes == IF mes_arg.t = "null" THEN Num(now.month) ELSE mes_arg
        ano == IF ano_arg.t = "null" THEN Num(now.year) ELSE ano_arg
    IN  IF ~IsNumber(mes) THEN Raise("TypeError")
        ELSE IF mes.n < 1 \/ mes.n > 12 THEN Ok([erro |-> "Mes deve estar entre 1 e 12"])
        ELSE LET obrigacoes == obrigacoes_mensais \o
                                 (IF mes.n \in DOMAIN obrigacoes_anuais
                                  THEN obrigacoes_anuais[mes.n] ELSE << >>)
             IN  Ok([mes |-> mes.n,
                     mes_nome |-> meses_nome[mes.n],
                     ano |-> ano,
                     total_obrigacoes |-> Len(obrigacoes_mensais),
                     obrigacoes |-> obrigacoes])

obter_obrigacoes_mes(mes_arg, ano_arg, now) ==
    LET mes == IF mes_arg.t = "null" THEN Num(now.month) ELSE mes_arg
        ano == IF ano_arg.t = "null" THEN Num(now.year) ELSE ano_arg
    IN  IF ~IsNumber(mes) THEN Raise("TypeError")
        ELSE IF mes.n < 1 \/ mes.n > 12 THEN Ok([erro |-> "Mes deve estar entre 1 e 12"])
        ELSE LET obrigacoes == obrigacoes_mensais \o
                                 (IF mes.n \in DOMAIN obrigacoes_anuais
                                  THEN obrigacoes_anuais[mes.n] ELSE << >>)
             IN  Ok([mes |-> mes.n,
                     mes_nome |-> meses_nome[mes.n],
                     ano |-> ano,
                     total_obrigacoes |-> Len(obrigacoes),
                     obrigacoes |-> obrigacoes])

\* f"R$ {receita_anual:,.2f}" raises for a value that is not a number
verificar_tipo_regime_tributario(receita_anual, atividade) ==
    IF ~IsNumber(receita_anual) THEN Raise("TypeError")
    ELSE LET r == receita_anual.n
             regimes == (IF r <= 4800000 THEN <<"Simples Nacional">> ELSE << >>) \o
                        (IF r <= 78000000 THEN <<"Lucro Presumido">> ELSE << >>) \o
                        <<"Lucro Real">>
             sugestao == IF r <= 360000 THEN "Simples Nacional"
                         ELSE IF r <= 4800000 THEN "Avaliar Simples vs Lucro Presumido"
                         ELSE IF r <= 78000000 THEN "Lucro Presumido ou Lucro Real"
                         ELSE "Lucro Real (obrigatorio)"
         IN  Ok([receita_anual |-> r,
                 atividade |-> atividade,
                 regimes_disponiveis |-> regimes,
                 sugestao |-> sugestao])

\* AVAILABLE_TOOLS: the advertised schemas, by name, in catalog order
AVAILABLE_TOOLS ==
    << "calcular_das_simples_nacional", "calcular_ferias",
       "obter_obrigacoes_mes", "verificar_tipo_regime_tributario" >>

\* the keys of FUNCTION_MAP
FUNCTION_MAP ==
    { "calcular_das_simples_nacional", "calcular_ferias",
      "obter_obrigacoes_mes", "verificar_tipo_regime_tributario" }

\* the parameters of each registered function, and those without a default
Parameters ==
    [calcular_das_simples_nacional |-> {"receita_bruta_12_meses", "anexo", "mes_referencia"},
     calcular_ferias |-> {"salario_bruto", "dias_ferias", "vende_10_dias"},
     obter_obrigacoes_mes |-> {"mes", "ano"},
     verificar_tipo_regime_tributario |-> {"receita_anual", "atividade"}]

RequiredParameters ==
    [calcular_das_simples_nacional |-> {"receita_bruta_12_meses", "anexo"},
     calcular_ferias |-> {"salario_bruto"},
     obter_obrigacoes_mes |-> {},
     verificar_tipo_regime_tributario |-> {"receita_anual"}]

Arg(obj, key, default) == IF key \in DOMAIN obj THEN obj[key] ELSE default

\* FUNCTION_MAP[function_name](**function_args): ** needs a mapping, every
\* key must be a parameter, every parameter without default must be given
CallFunction(function_name, function_args, now) ==
    IF ~function_args.isobj THEN Raise("TypeError")
    ELSE LET obj == function_args.value
         IN  IF ~(DOMAIN obj \subseteq Parameters[function_name])
                \/ ~(RequiredParameters[function_name] \subseteq DOMAIN obj)
             THEN Raise("TypeError")
             ELSE CASE function_name = "calcular_das_simples_nacional" ->
                         calcular_das_simples_nacional(obj["receita_bruta_12_meses"], obj["anexo"],
                                                       Arg(obj, "mes_referencia", Null), now)
                    [] function_name = "calcular_ferias" ->
                         calcular_ferias(obj["salario_bruto"], Arg(obj, "dias_ferias", Num(30)),
                                         Arg(obj, "vende_10_dias", Bool(FALSE)))
                    [] function_name = "obter_obrigacoes_mes" ->
                         obter_obrigacoes_mes(Arg(obj, "mes", Null), Arg(obj, "ano", Null), now)
                    [] function_name = "verificar_tipo_regime_tributario" ->
                         verificar_tipo_regime_tributario(obj["receita_anual"],
                                                          Arg(obj, "atividade", Str("comercio")))

(* --------------------- app/config.py: Settings ------------------------ *)
SYSTEM_PROMPT == "Voce e um assistente especializado em contabilidade brasileira."
OPENAI_MODEL == "gpt-4o-mini"
MAX_TOKENS == 1500
TEMPERATURE == 7          \* 0.7, in tenths

(* ------------------ values exchanged with the provider ---------------- *)
Usage(p, c, tot) == [prompt_tokens |-> p, completion_tokens |-> c, total_tokens |-> tot]

ToolCall(id, name, arguments) == [id |-> id, function |-> [name |-> name, arguments |-> arguments]]

\* what the model may ask for in one tool call: function name and arguments text
ToolCallPool ==
    { [name |-> "calcular_ferias", arguments |-> ObjText([salario_bruto |-> Num(3000)])],
      [name |-> "calcular_ferias", arguments |-> ObjText([salario_bruto |-> Str("tres mil")])],
      [name |-> "calcular_ferias", arguments |-> NotJsonText],
      [name |-> "calcular_das_simples_nacional",
       arguments |-> ObjText([receita_bruta_12_meses |-> Num(200000), anexo |-> Num(1)])],
      [name |-> "calcular_das_simples_nacional",
       arguments |-> ObjText([receita_bruta_12_meses |-> Num(200000), anexo |-> Num(9)])],
      [name |-> "calcular_das_simples_nacional",
       arguments |-> ObjText([receita_bruta_12_meses |-> Num(0), anexo |-> Num(1)])],
      [name |-> "obter_obrigacoes_mes", arguments |-> ObjText([mes |-> Num(13)])],
      [name |-> "obter_obrigacoes_mes", arguments |-> ObjText([mes |-> Num(5), semana |-> Num(2)])],
      [name |-> "consultar_cnpj", arguments |-> ObjText(EmptyObj)] }

\* tool-call ids are assigned by the provider, one per call of a response
CallIds == << "call_1", "call_2", "call_3", "call_4" >>

ToolCallSeqs(n) ==
    UNION { { [i \in 1..k |-> ToolCall(CallIds[i], f[i].name, f[i].arguments)] :
              f \in [1..k -> ToolCallPool] } : k \in 0..n }

\* content, usage, model and finish_reason of a provider response
Envelopes ==
    { [content |-> "Resposta A", usage |-> Usage(100, 20, 120),
       model |-> "gpt-4o-mini-2024-07-18", finish_reason |-> "stop"],
      [content |-> NoneText, usage |-> Usage(210, 35, 245),
       model |-> "gpt-4o-mini", finish_reason |-> "tool_calls"],
      [content |-> "Resposta B", usage |-> Usage(300, 1500, 1800),
       model |-> "gpt-4o-mini-2024-07-18", finish_reason |-> "length"] }

Response(env, tool_calls) ==
    [content |-> env.content, tool_calls |-> tool_calls, usage |-> env.usage,
     model |-> env.model, finish_reason |-> env.finish_reason]

\* every response the provider may give to a completion request
Responses == { Response(env, tcs) : env \in Envelopes, tcs \in ToolCallSeqs(MaxCalls) }

\* responses to request 2 (no catalog offered; a provider may still send calls)
SecondResponses ==
    { Response(env, tcs) : env \in Envelopes,
      tcs \in { << >>, << ToolCall("call_9", "calcular_ferias", ObjText([salario_bruto |-> Num(3000)])) >> } }

\* str(e) of a failure raised by the provider client
ProviderErrors == { "Rate limit reached", "Connection error." }

\* chunk.choices[0].delta.content of a streamed chunk
ChunkContents == { "Ola", " mundo", "", NoneText }

NoResponse == Response([content |-> NoneText, usage |-> Usage(0, 0, 0),
                        model |-> NoneText, finish_reason |-> NoneText], << >>)

NoResult == [message |-> NoneText, model |-> NoneText,
             tokens_used |-> [prompt |-> 0, completion |-> 0, total |-> 0],
             finish_reason |-> NoneText, tools_used |-> << >>]

NoError == << >>
NoCause == [origin |-> "none", exc |-> ""]
NoTools == << >>

\* the caller's inputs
UserMessages == { "Como calculo o DAS?" }
Turns == { [user_message |-> "Oi", assistant_message |-> "Ola, como posso ajudar?"],
           [user_message |-> "O que e MEI?", assistant_message |-> "Microempreendedor Individual."] }
\* conversation_history: None (given = FALSE) or a list of turns
Histories ==
    { [given |-> FALSE, turns |-> << >>] } \cup
    { [given |-> TRUE, turns |-> h] : h \in UNION { [1..k -> Turns] : k \in 0..MaxHist } }

(* ------------------------------- state -------------------------------- *)
VARIABLES
    mode,                  \* "complete" (get_completion) or "stream" (get_streaming_completion)
    user_message,          \* argument
    conversation_history,  \* argument
    use_tools,             \* argument
    pc,                    \* position of the coroutine / generator
    messages,              \* the local list messages
    requests,              \* every client.chat.completions.create call issued, in order
    response,              \* response of request 1
    second_response,       \* response of request 2
    ix,                    \* position of the for loop over assistant_message.tool_calls
    executed,              \* positions of the tool calls whose function was called, in order
    result,                \* the returned dict
    error,                 \* the exception raised to the caller: parts of its message
    cause,                 \* the exception the except clause caught, and where it came from
    yielded,               \* fragments the generator has yielded, in order
    chunks_read,           \* chunks taken from the provider stream
    received,              \* delta.content of each chunk taken, in order
    stream_failure,        \* the provider failure of the stream and what was yielded before it
    full_response,         \* the buffer full_response of send_message_stream.generate
    stopped,               \* the cancellation or abandonment of the invocation: where it
                           \* was suspended, what it had yielded and read by then
    c_inv,                 \* interleaved invocations: arguments and local state of each
    c_frames,              \* interleaved invocations: the list messages of each frame
    db,                    \* the rows of the table conversations, in order of creation
    history_request,       \* the last call of get_conversation_history: its arguments
    history_result,        \* the last call of get_conversation_history: what it returned
    route_pc,              \* position of the route handler that serves the invocation
    background_tasks,      \* the saves scheduled with background_tasks.add_task, in order
    tool_run               \* a registered function called on its own: arguments and outcome

\* the state of a single invocation
seq_vars == << mode, user_message, conversation_history, use_tools, pc, messages, requests,
               response, second_response, ix, executed, result, error, cause,
               yielded, chunks_read, received, stream_failure, full_response, stopped >>
\* the state of interleaved invocations of the one OpenAIService object
conc_vars == << c_inv, c_frames >>
\* the state of the table conversations and of its readers
db_vars == << db, history_request, history_result >>

\* the state of the route handler around a single invocation
route_vars == << route_pc, background_tasks >>

vars == << seq_vars, conc_vars, db_vars, route_vars, tool_run >>

inputs == << mode, user_message, conversation_history, use_tools >>
stream_vars == << yielded, chunks_read, received, stream_failure, full_response >>

NotStopped == [at |-> "none", yielded |-> << >>, chunks_read |-> 0]

NoStreamFailure == [failed |-> FALSE, upstream |-> "", before |-> << >>]

(* --------------- app/services/openai_services.py ---------------------- *)
\* the two messages of one turn of history
TurnMessages(conv) ==
    << [role |-> "user", content |-> conv.user_message],
       [role |-> "assistant", content |-> conv.assistant_message] >>

RECURSIVE HistoryMessages(_)
HistoryMessages(turns) ==
    IF turns = << >> THEN << >>
    ELSE TurnMessages(Head(turns)) \o HistoryMessages(Tail(turns))

\* (variant: the system prompt is placed after the history)
build_messages_prompt_after_history(msg, history) ==
    (IF history.given /\ history.turns # << >> THEN HistoryMessages(history.turns) ELSE << >>)
    \o << [role |-> "system", content |-> SYSTEM_PROMPT] >>
    \o << [role |-> "user", content |-> msg] >>

\* (variant: the list lives on the service object and grows call after call)
build_messages_kept(msg, history) ==
    (IF 1 \in DOMAIN c_frames THEN c_frames[1] ELSE << >>)
    \o << [role |-> "system", content |-> SYSTEM_PROMPT] >>
    \o (IF history.given /\ history.turns # << >> THEN HistoryMessages(history.turns) ELSE << >>)
    \o << [role |-> "user", content |-> msg] >>

\* (variant: the turns of history newest first)
build_messages_newest_first(msg, history) ==
    << [role |-> "system", content |-> SYSTEM_PROMPT] >>
    \o (IF history.given /\ history.turns # << >>
        THEN HistoryMessages([i \in DOMAIN history.turns |->
                                history.turns[Len(history.turns) + 1 - i]])
        ELSE << >>)
    \o << [role |-> "user", content |-> msg] >>

\* OpenAIService._build_messages; "if conversation_history:" is false for
\* None and for the empty list
build_messages(msg, history) ==
    << [role |-> "system", content |-> SYSTEM_PROMPT] >>
    \o (IF history.given /\ history.turns # << >> THEN HistoryMessages(history.turns) ELSE << >>)
    \o << [role |-> "user", content |-> msg] >>

\* (variant: the catalog is sent whatever use_tools says)
tools_param_always(flag) == AVAILABLE_TOOLS

\* tools=AVAILABLE_TOOLS if use_tools else None
tools_param(flag) == IF flag THEN AVAILABLE_TOOLS ELSE NoTools
\* tool_choice="auto" if use_tools else None
tool_choice_param(flag) == IF flag THEN "auto" ELSE NoneText

Request(msgs, tools, tool_choice, stream) ==
    [model |-> OPENAI_MODEL, messages |-> msgs, max_tokens |-> MAX_TOKENS,
     temperature |-> TEMPERATURE, tools |-> tools, tool_choice |-> tool_choice,
     stream |-> stream]

first_request(msgs, flag) == Request(msgs, tools_param(flag), tool_choice_param(flag), FALSE)
second_request(msgs) == Request(msgs, NoTools, NoneText, FALSE)
stream_request(msgs) == Request(msgs, NoTools, NoneText, TRUE)

\* "if assistant_message.tool_calls:" (None and the empty list are falsy)
has_tool_calls(r) == r.tool_calls # << >>

\* (variant: the assistant message is rebuilt from its text alone)
assistant_message_text_only(r) ==
    [role |-> "assistant", content |-> r.content, tool_calls |-> << >>]

\* messages.append(assistant_message): response.choices[0].message as received
assistant_message(r) ==
    [role |-> "assistant", content |-> r.content, tool_calls |-> r.tool_calls]

\* (variant: the function name is sent where the call id belongs)
tool_message_name_as_id(tool_call, function_response) ==
    [role |-> "tool", tool_call_id |-> tool_call.function.name,
     name |-> tool_call.function.name, content |-> json_dumps(function_response)]

tool_message(tool_call, function_response) ==
    [role |-> "tool", tool_call_id |-> tool_call.id, name |-> tool_call.function.name,
     content |-> json_dumps(function_response)]

\* (variant: the loop stays on the same tool call)
next_tool_call_same(i) == i

\* the for loop moves to the next tool call
next_tool_call(i) == i + 1

\* (variant: only the usage of request 2 is reported)
sum_usage_second_only(u1, u2) ==
    [prompt |-> u2.prompt_tokens, completion |-> u2.completion_tokens,
     total |-> u2.total_tokens]

\* response.usage.x + second_response.usage.x
sum_usage(u1, u2) ==
    [prompt |-> u1.prompt_tokens + u2.prompt_tokens,
     completion |-> u1.completion_tokens + u2.completion_tokens,
     total |-> u1.total_tokens + u2.total_tokens]

\* [tc.function.name for tc in assistant_message.tool_calls]
tools_used_of(r) == [i \in DOMAIN r.tool_calls |-> r.tool_calls[i].function.name]

\* (variant: finish_reason is taken from response 1)
round_trip_result_first_finish(r1, r2) ==
    [message |-> r2.content, model |-> r2.model,
     tokens_used |-> sum_usage(r1.usage, r2.usage),
     finish_reason |-> r1.finish_reason,
     tools_used |-> tools_used_of(r1)]

\* the dict returned after the tool round-trip
round_trip_result(r1, r2) ==
    [message |-> r2.content, model |-> r2.model,
     tokens_used |-> sum_usage(r1.usage, r2.usage),
     finish_reason |-> r2.finish_reason,
     tools_used |-> tools_used_of(r1)]

\* (variant: the single response's usage is counted twice)
direct_result_double(r) ==
    [message |-> r.content, model |-> r.model,
     tokens_used |-> sum_usage(r.usage, r.usage),
     finish_reason |-> r.finish_reason,
     tools_used |-> << >>]

\* the dict returned when there were no tool calls
direct_result(r) ==
    [message |-> r.content, model |-> r.model,
     tokens_used |-> [prompt |-> r.usage.prompt_tokens,
                      completion |-> r.usage.completion_tokens,
                      total |-> r.usage.total_tokens],
     finish_reason |-> r.finish_reason,
     tools_used |-> << >>]

\* (variant: the upstream text is left out of the message)
wrap_exception_generic(e) == << "Erro ao comunicar com OpenAI" >>

\* raise Exception(f"Erro ao comunicar com OpenAI: {str(e)}")
wrap_exception(e) == << "Erro ao comunicar com OpenAI: ", e >>

\* yield f"[ERRO]: {str(e)}"
error_fragment(e) == << "[ERRO]: ", e >>
\* a fragment of provider text, as the generator yields it
text_fragment(content) == << content >>

\* (variant: the except clause yields nothing)
on_stream_exception_silent(ys, e) == ys

\* the generator's except clause: what has been yielded once it ran
on_stream_exception(ys, e) == Append(ys, error_fragment(e))

\* (variant: the buffer keeps only the last fragment)
accumulate_last(full, chunk) == chunk

\* send_message_stream.generate: full_response += chunk, run on every fragment
\* the generator yields, before the fragment goes on to the client
accumulate(full, chunk) == full \o chunk

\* (variant: a bare except, which also catches BaseException)
except_catches_all(kind) == TRUE

\* "except Exception": asyncio.CancelledError and GeneratorExit derive from
\* BaseException only, every other failure here derives from Exception
except_catches(kind) == kind \notin {"CancelledError", "GeneratorExit"}

\* (variant: the tool dispatch awaits, so that a cancellation can land in the loop)
suspension_point_in_loop(at) == at \in {"await_first", "tool_loop", "await_second"}

\* the awaits of get_completion (lines 61 and 95): a cancellation is delivered
\* only where the coroutine is suspended
suspension_point(at) == at \in {"await_first", "await_second"}

\* variant: "if chunk.choices[0].delta.content is not None:"
has_content_not_none(content) == content # NoneText

\* "if chunk.choices[0].delta.content:"
has_content(content) == content # NoneText /\ content # ""

\* the consumer's loop body for what the generator has newly yielded
consume(full, before, after) ==
    IF Len(after) > Len(before) THEN accumulate(full, after[Len(after)]) ELSE full

(* ------------------------------- Init --------------------------------- *)
\* no interleaved invocation is under way
ConcIdle == c_inv = << >> /\ c_frames = << >>

NoHistoryRequest == [route |-> "", session_id |-> "", limit |-> 0, user_id |-> 0]
\* the table is empty and has not been read
DbIdle == db = << >> /\ history_request = NoHistoryRequest /\ history_result = << >>

\* datetime.now() has not been called
NoClock == [month |-> 0, year |-> 0, mm_yyyy |-> ""]

\* no registered function is being called on its own
ToolIdle ==
    tool_run = [name |-> "", args |-> EmptyObj, now |-> NoClock, done |-> FALSE,
                out |-> Raise("")]

Init ==
    /\ ConcIdle
    /\ DbIdle
    /\ ToolIdle
    /\ route_pc = "handling"
    /\ background_tasks = << >>
    /\ mode \in {"complete", "stream"}
    /\ user_message \in UserMessages
    /\ conversation_history \in Histories
    /\ use_tools \in BOOLEAN
    /\ (mode = "stream" => use_tools = FALSE)   \* the streaming path has no such argument
    /\ pc = "start"
    /\ messages = << >>
    /\ requests = << >>
    /\ response = NoResponse
    /\ second_response = NoResponse
    /\ ix = 0
    /\ executed = << >>
    /\ result = NoResult
    /\ error = NoError
    /\ cause = NoCause
    /\ yielded = << >>
    /\ chunks_read = 0
    /\ received = << >>
    /\ stream_failure = NoStreamFailure
    /\ full_response = << >>
    /\ stopped = NotStopped

(* ------------------------- get_completion ----------------------------- *)
\* lines 57-68: build the messages and issue request 1
CallGetCompletion ==
    /\ pc = "start" /\ mode = "complete"
    /\ messages' = build_messages(user_message, conversation_history)
    /\ requests' = Append(requests, first_request(messages', use_tools))
    /\ pc' = "await_first"
    /\ UNCHANGED << conc_vars, db_vars, route_vars, tool_run, inputs, stopped, response,
                    second_response, ix, executed, result, error, cause, stream_vars >>

\* the except clause, lines 129-130
Fail(e, origin) ==
    /\ error' = wrap_exception(e)
    /\ cause' = [origin |-> origin, exc |-> e]
    /\ pc' = "failed"

\* request 1 raises
FirstRequestFails ==
    /\ pc = "await_first"
    /\ \E e \in ProviderErrors : Fail(e, "request1")
    /\ UNCHANGED << conc_vars, db_vars, route_vars, tool_run, inputs, stopped, messages,
                    requests, response, second_response, ix, executed, result, stream_vars >>

\* request 1 answers without tool calls: lines 70-73, 117-127
FirstResponseDirect ==
    /\ pc = "await_first"
    /\ \E r \in Responses :
         /\ ~has_tool_calls(r)
         /\ response' = r
         /\ result' = direct_result(r)
    /\ pc' = "done"
    /\ UNCHANGED << conc_vars, db_vars, route_vars, tool_run, inputs, stopped, messages,
                    requests, second_response, ix, executed, error, cause, stream_vars >>

\* request 1 answers with tool calls: lines 70-75
FirstResponseToolCalls ==
    /\ pc = "await_first"
    /\ \E r \in Responses :
         /\ has_tool_calls(r)
         /\ response' = r
         /\ messages' = Append(messages, assistant_message(r))
    /\ ix' = 1
    /\ pc' = "tool_loop"
    /\ UNCHANGED << conc_vars, db_vars, route_vars, tool_run, inputs, stopped, requests,
                    second_response, executed, result, error, cause, stream_vars >>

InLoop == pc = "tool_loop" /\ ix <= Len(response.tool_calls)
tool_call == response.tool_calls[ix]
function_args == json_loads(tool_call.function.arguments)

\* line 80: json.loads raises
ToolCallMalformed ==
    /\ InLoop
    /\ function_args.raised
    /\ Fail(function_args.exc, "json")
    /\ UNCHANGED << conc_vars, db_vars, route_vars, tool_run, inputs, stopped, messages,
                    requests, response, second_response, ix, executed, result, stream_vars >>

\* variant: a loop that does not step over a call it cannot dispatch
ToolCallUnknown_spins ==
    /\ InLoop
    /\ ~function_args.raised
    /\ tool_call.function.name \notin FUNCTION_MAP
    /\ UNCHANGED vars

\* line 83: the name is not in FUNCTION_MAP; the loop goes on
ToolCallUnknown ==
    /\ InLoop
    /\ ~function_args.raised
    /\ tool_call.function.name \notin FUNCTION_MAP
    /\ ix' = next_tool_call(ix)
    /\ UNCHANGED << conc_vars, db_vars, route_vars, tool_run, inputs, stopped, pc, messages,
                    requests, response, second_response, executed, result, error, cause,
                    stream_vars >>

\* line 84: the function raises
ToolCallRaises ==
    /\ InLoop
    /\ ~function_args.raised
    /\ tool_call.function.name \in FUNCTION_MAP
    /\ \E now \in Clock :
         LET function_response == CallFunction(tool_call.function.name, function_args, now)
         IN  /\ function_response.raised
             /\ Fail(function_response.exc, "tool")
    /\ executed' = Append(executed, ix)
    /\ UNCHANGED << conc_vars, db_vars, route_vars, tool_run, inputs, stopped, messages,
                    requests, response, second_response, ix, result, stream_vars >>

\* lines 84-92: the function returns and its result is appended
ToolCallExecuted ==
    /\ InLoop
    /\ ~function_args.raised
    /\ tool_call.function.name \in FUNCTION_MAP
    /\ \E now \in Clock :
         LET function_response == CallFunction(tool_call.function.name, function_args, now)
         IN  /\ ~function_response.raised
             /\ messages' = Append(messages, tool_message(tool_call, function_response.value))
    /\ executed' = Append(executed, ix)
    /\ ix' = next_tool_call(ix)
    /\ UNCHANGED << conc_vars, db_vars, route_vars, tool_run, inputs, stopped, pc, requests,
                    response, second_response, result, error, cause, stream_vars >>

\* (variant: request 2 is issued from inside the loop)
SecondRequest_inside_loop ==
    /\ pc = "tool_loop" /\ ix > 1
    /\ requests' = Append(requests, second_request(messages))
    /\ pc' = "await_second"
    /\ UNCHANGED << conc_vars, db_vars, route_vars, tool_run, inputs, stopped, messages,
                    response, second_response, ix, executed, result, error, cause,
                    stream_vars >>

\* lines 95-100: the loop is over, issue request 2
SecondRequest ==
    /\ pc = "tool_loop" /\ ix > Len(response.tool_calls)
    /\ requests' = Append(requests, second_request(messages))
    /\ pc' = "await_second"
    /\ UNCHANGED << conc_vars, db_vars, route_vars, tool_run, inputs, stopped, messages,
                    response, second_response, ix, executed, result, error, cause,
                    stream_vars >>

\* request 2 raises
SecondRequestFails ==
    /\ pc = "await_second"
    /\ \E e \in ProviderErrors : Fail(e, "request2")
    /\ UNCHANGED << conc_vars, db_vars, route_vars, tool_run, inputs, stopped, messages,
                    requests, response, second_response, ix, executed, result, stream_vars >>

\* request 2 answers: lines 102-114
SecondResponse ==
    /\ pc = "await_second"
    /\ \E r \in SecondResponses :
         /\ second_response' = r
         /\ result' = round_trip_result(response, r)
    /\ pc' = "done"
    /\ UNCHANGED << conc_vars, db_vars, route_vars, tool_run, inputs, stopped, messages,
                    requests, response, ix, executed, error, cause, stream_vars >>

\* the caller cancels the task: CancelledError is thrown into the coroutine at
\* the await it is suspended on, and passes the except clause or is caught by it
CancelCompletion ==
    /\ mode = "complete" /\ suspension_point(pc)
    /\ stopped' = [at |-> pc, yielded |-> yielded, chunks_read |-> chunks_read]
    /\ IF except_catches("CancelledError")
       THEN Fail("CancelledError", "cancel")
       ELSE /\ pc' = "cancelled"
            /\ UNCHANGED << error, cause >>
    /\ UNCHANGED << conc_vars, db_vars, route_vars, tool_run, inputs, messages, requests,
                    response, second_response, ix, executed, result, stream_vars >>

(* -------------------- get_streaming_completion ------------------------ *)
completion_vars == << response, second_response, ix, executed, result, error, cause >>

\* lines 141-150: build the messages and ask for a stream
CallGetStreamingCompletion ==
    /\ pc = "start" /\ mode = "stream"
    /\ messages' = build_messages(user_message, conversation_history)
    /\ requests' = Append(requests, stream_request(messages'))
    /\ pc' = "stream_open"
    /\ UNCHANGED << conc_vars, db_vars, route_vars, tool_run, inputs, stopped, completion_vars,
                    stream_vars >>

\* the create call raises: the except clause yields the marker
StreamOpenFails ==
    /\ pc = "stream_open"
    /\ \E e \in ProviderErrors :
         /\ yielded' = on_stream_exception(yielded, e)
         /\ stream_failure' = [failed |-> TRUE, upstream |-> e, before |-> yielded]
    /\ full_response' = consume(full_response, yielded, yielded')
    /\ pc' = "yield_error"
    /\ UNCHANGED << conc_vars, db_vars, route_vars, tool_run, inputs, stopped, messages,
                    requests, completion_vars, chunks_read, received >>

\* the create call returns the stream
StreamOpened ==
    /\ pc = "stream_open"
    /\ pc' = "stream_next"
    /\ UNCHANGED << conc_vars, db_vars, route_vars, tool_run, inputs, stopped, messages,
                    requests, completion_vars, stream_vars >>

\* a chunk with content arrives and is yielded: lines 152-154
ChunkYielded ==
    /\ pc = "stream_next" /\ chunks_read < MaxChunks
    /\ \E c \in ChunkContents :
         /\ has_content(c)
         /\ received' = Append(received, c)
         /\ yielded' = Append(yielded, text_fragment(c))
    /\ full_response' = consume(full_response, yielded, yielded')
    /\ chunks_read' = chunks_read + 1
    /\ pc' = "yield_fragment"
    /\ UNCHANGED << conc_vars, db_vars, route_vars, tool_run, inputs, stopped, messages,
                    requests, completion_vars, stream_failure >>

\* a chunk with empty or absent content arrives: nothing is yielded
ChunkSkipped ==
    /\ pc = "stream_next" /\ chunks_read < MaxChunks
    /\ \E c \in ChunkContents :
         /\ ~has_content(c)
         /\ received' = Append(received, c)
    /\ chunks_read' = chunks_read + 1
    /\ UNCHANGED << conc_vars, db_vars, route_vars, tool_run, inputs, stopped, pc, messages,
                    requests, completion_vars, yielded, stream_failure, full_response >>

\* the consumer asks for the next fragment
ConsumerResumes ==
    /\ pc = "yield_fragment"
    /\ pc' = "stream_next"
    /\ UNCHANGED << conc_vars, db_vars, route_vars, tool_run, inputs, stopped, messages,
                    requests, completion_vars, stream_vars >>

\* the provider stream fails while the generator waits for a chunk
StreamFails ==
    /\ pc = "stream_next"
    /\ \E e \in ProviderErrors :
         /\ yielded' = on_stream_exception(yielded, e)
         /\ stream_failure' = [failed |-> TRUE, upstream |-> e, before |-> yielded]
    /\ full_response' = consume(full_response, yielded, yielded')
    /\ pc' = "yield_error"
    /\ UNCHANGED << conc_vars, db_vars, route_vars, tool_run, inputs, stopped, messages,
                    requests, completion_vars, chunks_read, received >>

\* the provider stream is exhausted: the generator returns
StreamEnds ==
    /\ pc = "stream_next"
    /\ pc' = "stream_end"
    /\ UNCHANGED << conc_vars, db_vars, route_vars, tool_run, inputs, stopped, messages,
                    requests, completion_vars, stream_vars >>

\* the consumer resumes the generator after the marker: it returns
ConsumerResumesAfterError ==
    /\ pc = "yield_error"
    /\ pc' = "stream_end"
    /\ UNCHANGED << conc_vars, db_vars, route_vars, tool_run, inputs, stopped, messages,
                    requests, completion_vars, stream_vars >>

\* the consumer abandons the sequence.  Where the generator is suspended at a
\* yield, closing it throws GeneratorExit there; where it awaits the provider,
\* the cancelled task throws CancelledError there.  Inside the try block the
\* except clause is tried; the yield of the marker is outside it.
AbandonStream ==
    /\ pc \in {"stream_open", "stream_next", "yield_fragment", "yield_error"}
    /\ stopped' = [at |-> pc, yielded |-> yielded, chunks_read |-> chunks_read]
    /\ LET kind == IF pc \in {"yield_fragment", "yield_error"}
                   THEN "GeneratorExit" ELSE "CancelledError"
       IN  IF pc # "yield_error" /\ except_catches(kind)
           THEN /\ yielded' = on_stream_exception(yielded, kind)
                /\ full_response' = consume(full_response, yielded, yielded')
                /\ pc' = "yield_error"
           ELSE /\ pc' = "stream_closed"
                /\ UNCHANGED << yielded, full_response >>
    /\ UNCHANGED << conc_vars, db_vars, route_vars, tool_run, inputs, messages, requests,
                    completion_vars, chunks_read, received, stream_failure >>

\* Conversation(session_id=..., user_id=..., user_message=..., assistant_message=...)
Conversation(id, session_id, user_id, user_msg, assistant_msg) ==
    [id |-> id, session_id |-> session_id, user_id |-> user_id,
     user_message |-> user_msg, assistant_message |-> assistant_msg]

\* save_conversation: one more row
save_conversation(rows, session_id, user_msg, assistant_msg, user_id) ==
    Append(rows, Conversation(Len(rows) + 1, session_id, user_id, user_msg, assistant_msg))

(* ------------------- app/routes/messages.py --------------------------- *)
(* send_message serves a get_completion, send_message_stream serves a      *)
(* get_streaming_completion; the request is of user 1 in session "s1".     *)

\* send_message lines 87-115: the completion returned; the save is scheduled
\* and the response is returned
RouteReturns ==
    /\ mode = "complete" /\ pc = "done" /\ route_pc = "handling"
    /\ background_tasks' = Append(background_tasks,
                                  [session_id |-> "s1", user_msg |-> user_message,
                                   assistant_msg |-> result.message, user_id |-> 1])
    /\ route_pc' = "returned"
    /\ UNCHANGED << seq_vars, conc_vars, db_vars, tool_run >>

\* variant: the except clause schedules a turn holding the error text
RouteRaises_saves_error ==
    /\ mode = "complete" /\ pc = "failed" /\ route_pc = "handling"
    /\ background_tasks' = Append(background_tasks,
                                  [session_id |-> "s1", user_msg |-> user_message,
                                   assistant_msg |-> error, user_id |-> 1])
    /\ route_pc' = "http_500"
    /\ UNCHANGED << seq_vars, conc_vars, db_vars, tool_run >>

\* send_message lines 117-118: the completion raised; HTTPException(500)
RouteRaises ==
    /\ mode = "complete" /\ pc = "failed" /\ route_pc = "handling"
    /\ route_pc' = "http_500"
    /\ UNCHANGED << seq_vars, conc_vars, db_vars, tool_run, background_tasks >>

\* the scheduled save_conversation runs once the response is out; a message
\* that is None does not make a row (assistant_message is NOT NULL)
RunBackgroundTask ==
    /\ route_pc = "returned" /\ background_tasks # << >>
    /\ LET task == Head(background_tasks)
       IN  db' = IF task.assistant_msg = NoneText THEN db
                 ELSE save_conversation(db, task.session_id, task.user_msg,
                                        task.assistant_msg, task.user_id)
    /\ background_tasks' = Tail(background_tasks)
    /\ route_pc' = "task_ran"
    /\ UNCHANGED << seq_vars, conc_vars, history_request, history_result, tool_run >>

\* variant: the save sits in a finally clause of generate
GenerateSaves_finally ==
    /\ mode = "stream" /\ pc \in {"stream_end", "stream_closed"} /\ route_pc = "handling"
    /\ db' = save_conversation(db, "s1", user_message, full_response, 1)
    /\ route_pc' = "saved"
    /\ UNCHANGED << seq_vars, conc_vars, history_request, history_result, tool_run,
                    background_tasks >>

\* send_message_stream.generate lines 156-163: the loop over the generator
\* is over, the buffer is saved
GenerateSaves ==
    /\ mode = "stream" /\ pc = "stream_end" /\ route_pc = "handling"
    /\ db' = save_conversation(db, "s1", user_message, full_response, 1)
    /\ route_pc' = "saved"
    /\ UNCHANGED << seq_vars, conc_vars, history_request, history_result, tool_run,
                    background_tasks >>

Next ==
    \/ CallGetCompletion
    \/ FirstRequestFails
    \/ FirstResponseDirect
    \/ FirstResponseToolCalls
    \/ ToolCallMalformed
    \/ ToolCallUnknown
    \/ ToolCallRaises
    \/ ToolCallExecuted
    \/ SecondRequest
    \/ SecondRequestFails
    \/ SecondResponse
    \/ CancelCompletion
    \/ CallGetStreamingCompletion
    \/ StreamOpenFails
    \/ StreamOpened
    \/ ChunkYielded
    \/ ChunkSkipped
    \/ ConsumerResumes
    \/ StreamFails
    \/ StreamEnds
    \/ ConsumerResumesAfterError
    \/ AbandonStream

Spec == Init /\ [][Next]_vars

\* a request whose session holds no earlier turn: use_history is off
\* (conversation_history = None) or the fetched history is the empty list
InitFresh == Init /\ conversation_history.turns = << >>

\* send_message and send_message_stream around the service's invocation
NextRoute ==
    \/ Next
    \/ RouteReturns
    \/ RouteRaises
    \/ RunBackgroundTask
    \/ GenerateSaves

SpecRoute == InitFresh /\ [][NextRoute]_vars

\* the invocations of a fresh request, which take the same steps as any other,
\* under the progress the event loop and the claim's assumptions give: while a
\* step is possible the invocation does not stand still.  In every state that
\* is not final, the coroutine can run (a synchronous step of lines 57-113 or
\* 141), or a provider request is due to return or raise, or the provider's
\* stream is due to deliver, end or fail, or the consumer holds the generator
\* and resumes or closes it.
SpecLive == InitFresh /\ [][Next]_vars /\ WF_vars(Next)

TypeOK ==
    /\ pc \in {"start", "await_first", "tool_loop", "await_second", "done", "failed",
               "cancelled", "stream_open", "stream_next", "yield_fragment", "yield_error",
               "stream_end", "stream_closed"}
    /\ Len(requests) <= 2

(* ------------------------------ claims -------------------------------- *)
Registered(r) == \A i \in DOMAIN r.tool_calls : r.tool_calls[i].function.name \in FUNCTION_MAP
\* the history the caller supplied, None read as no turns
SuppliedTurns == IF conversation_history.given THEN conversation_history.turns ELSE << >>
\* what follows the assembled list and the assistant message in messages
AppendedAfterAssistant == SubSeq(messages, 2 * Len(SuppliedTurns) + 4, Len(messages))

\* C1: when a completion returns after response 1 carried k >= 1 tool calls that
\* all name registered tools, exactly k tool-role messages were appended, one per
\* tool call and in call order; tokens_used is the element-wise sum of the usage
\* of response 1 and response 2; tools_used has length k, in call order.
C1_RoundTripAppendsOnePerCall ==
    (pc = "done" /\ has_tool_calls(response) /\ Registered(response)) =>
        LET k == Len(response.tool_calls)
        IN  /\ Len(AppendedAfterAssistant) = k
            /\ \A i \in 1..k :
                 /\ AppendedAfterAssistant[i].role = "tool"
                 /\ AppendedAfterAssistant[i].tool_call_id = response.tool_calls[i].id
                 /\ AppendedAfterAssistant[i].name = response.tool_calls[i].function.name
            /\ Cardinality({j \in DOMAIN messages : messages[j].role = "tool"}) = k
            /\ requests[2].messages = messages
            /\ result.tokens_used.prompt =
                 response.usage.prompt_tokens + second_response.usage.prompt_tokens
            /\ result.tokens_used.completion =
                 response.usage.completion_tokens + second_response.usage.completion_tokens
            /\ result.tokens_used.total =
                 response.usage.total_tokens + second_response.usage.total_tokens
            /\ Len(result.tools_used) = k
            /\ \A i \in 1..k : result.tools_used[i] = response.tool_calls[i].function.name

C1_Witness ==
    /\ pc = "done" /\ Len(response.tool_calls) = 2 /\ Registered(response)
    /\ response.tool_calls[1].function.name # response.tool_calls[2].function.name
    /\ Len(executed) = 2

\* C2: when response 1 contains a tool call whose function name is not in the
\* registry, the completion fails: the loop never goes past that call and no
\* second provider request is issued.
C2_UnknownToolIsFatal ==
    \A i \in DOMAIN response.tool_calls :
        response.tool_calls[i].function.name \notin FUNCTION_MAP =>
            /\ ix <= i
            /\ Len(requests) <= 1
            /\ pc # "done"

\* C3: when a tool call of response 1 has arguments that are not valid JSON, the
\* completion fails before any tool of that response has executed, and without
\* a second provider request.
C3_MalformedBeforeAnyTool ==
    (pc = "failed" /\ cause.origin = "json") =>
        /\ executed = << >>
        /\ Len(requests) = 1

\* C4: when response 1 carries no tool calls, the completion returns after that
\* single provider request with tools_used empty and tokens_used equal to
\* response 1's usage, each counter counted once.
C4_DirectResultCountsOnce ==
    (pc = "done" /\ ~has_tool_calls(response)) =>
        /\ Len(requests) = 1
        /\ result.tools_used = << >>
        /\ result.tokens_used.prompt = response.usage.prompt_tokens
        /\ result.tokens_used.completion = response.usage.completion_tokens
        /\ result.tokens_used.total = response.usage.total_tokens

C4_Witness ==
    /\ pc = "done" /\ ~has_tool_calls(response)
    /\ response.usage.total_tokens > 0
    /\ result.message = response.content

\* C5: the assembled message list has length 1 + 2*len(H) + 1, starts with the
\* system message, ends with the user message m, and between them holds the
\* user/assistant pair of every turn of H in the supplied order.
C5_AssembledMessages ==
    (pc # "start") =>
        LET assembled == requests[1].messages
            H == SuppliedTurns
        IN  /\ Len(assembled) = 1 + 2 * Len(H) + 1
            /\ assembled[1].role = "system"
            /\ assembled[1].content = SYSTEM_PROMPT
            /\ assembled[Len(assembled)] = [role |-> "user", content |-> user_message]
            /\ \A j \in DOMAIN H :
                 /\ assembled[2 * j] = [role |-> "user", content |-> H[j].user_message]
                 /\ assembled[2 * j + 1] =
                      [role |-> "assistant", content |-> H[j].assistant_message]

C5_Witness ==
    /\ pc # "start"
    /\ Len(SuppliedTurns) = 2
    /\ SuppliedTurns[1] # SuppliedTurns[2]
    /\ Len(requests[1].messages) = 6

\* C6: one invocation issues at most two provider requests (one when response 1
\* has no tool calls, two on a round-trip), dispatches each tool call of
\* response 1 at most once, never acts on tool calls of response 2, and retries
\* neither a request nor a tool execution.
C6_OneRoundTrip ==
    /\ Len(requests) <= 2
    /\ (pc = "done" /\ ~has_tool_calls(response)) => Len(requests) = 1
    /\ (pc = "done" /\ has_tool_calls(response)) => Len(requests) = 2
    /\ \A a, b \in DOMAIN executed : executed[a] = executed[b] => a = b
    /\ \A a \in DOMAIN executed : executed[a] \in DOMAIN response.tool_calls
    /\ (pc = "done" /\ has_tool_calls(response)) =>
          /\ messages = requests[2].messages
          /\ Len(executed) <= Len(response.tool_calls)
    /\ (pc = "failed") =>
          Len(requests) = (IF cause.origin = "request1" THEN 1
                           ELSE IF cause.origin = "request2" THEN 2 ELSE 1)

C6_Witness ==
    /\ pc = "done"
    /\ has_tool_calls(second_response)
    /\ Len(executed) = 2
    /\ Len(requests) = 2

\* C7: the tool catalog is offered only in request 1 of get_completion and only
\* when use_tools is true; never in request 2, never in a streaming request.
C7_CatalogOnlyInFirstRequest ==
    \A j \in DOMAIN requests :
        /\ (requests[j].tools # NoTools) <=> (j = 1 /\ mode = "complete" /\ use_tools)
        /\ (requests[j].tools # NoTools) => requests[j].tools = AVAILABLE_TOOLS
        /\ (requests[j].tool_choice = "auto") <=> (requests[j].tools # NoTools)
        /\ requests[j].stream => requests[j].tools = NoTools

C7_Witness ==
    /\ Len(requests) = 2
    /\ use_tools
    /\ requests[1].tools = AVAILABLE_TOOLS
    /\ requests[2].tools = NoTools

\* C8: a provider failure at request 1 or at request 2 ends the completion in
\* one failure whose message carries the upstream text; no result is returned,
\* not even one built from response 1, and the failed request is not re-issued.
C8_ProviderFailureSurfaces ==
    (cause.origin \in {"request1", "request2"}) =>
        /\ pc = "failed"
        /\ error # NoError
        /\ error[Len(error)] = cause.exc
        /\ cause.exc \in ProviderErrors
        /\ result = NoResult
        /\ Len(requests) = (IF cause.origin = "request1" THEN 1 ELSE 2)

C8_Witness ==
    /\ pc = "failed"
    /\ cause.origin = "request2"
    /\ response # NoResponse
    /\ Len(requests) = 2

\* C9: no tool call with a registered name and arguments that parse as JSON
\* aborts the completion: its dispatch yields a value that becomes a tool message.
C9_NoArgumentAborts ==
    /\ cause.origin # "tool"
    /\ \A a \in DOMAIN executed :
         \E j \in DOMAIN messages :
            /\ messages[j].role = "tool"
            /\ messages[j].tool_call_id = response.tool_calls[executed[a]].id

\* C10: when the provider fails at stream setup or after any number of
\* fragments, the generator yields exactly one further fragment, the error
\* marker, and ends; nothing is raised to the consumer and the fragments
\* yielded before the failure are unchanged.
C10_StreamFailureYieldsMarker ==
    /\ (mode = "stream") => (error = NoError /\ pc # "failed")
    /\ stream_failure.failed =>
          /\ yielded = Append(stream_failure.before, << "[ERRO]: ", stream_failure.upstream >>)
          /\ pc \in {"yield_error", "stream_end", "stream_closed"}

C10_Witness ==
    /\ stream_failure.failed
    /\ Len(stream_failure.before) = 2
    /\ pc = "stream_end"

RECURSIVE Concat(_)
\* the concatenation, in order, of a sequence of fragments
Concat(fragments) ==
    IF fragments = << >> THEN << >> ELSE Head(fragments) \o Concat(Tail(fragments))

\* C11: once the fragment sequence is exhausted, with or without a provider
\* failure, the buffer full_response is the concatenation, in order, of every
\* fragment that was yielded.
C11_BufferIsConcatenation ==
    (pc = "stream_end") => full_response = Concat(yielded)

C11_Witness ==
    /\ pc = "stream_end"
    /\ stream_failure.failed
    /\ Len(yielded) = 3
    /\ yielded[1] # yielded[2]

ToolRole(msgs) == {m \in DOMAIN msgs : msgs[m].role = "tool"}

\* every tool message answers a call of the nearest assistant message before it
ToolMessagesMatch(msgs) ==
    \A m \in ToolRole(msgs) :
        LET before == {a \in 1..(m - 1) : msgs[a].role = "assistant"}
        IN  /\ before # {}
            /\ LET a == CHOOSE x \in before : \A y \in before : y <= x
               IN  /\ "tool_calls" \in DOMAIN msgs[a]
                   /\ \E i \in DOMAIN msgs[a].tool_calls :
                        msgs[a].tool_calls[i].id = msgs[m].tool_call_id

\* C12: in every message list sent to the provider each tool-role message
\* carries a tool_call_id emitted by the nearest preceding assistant message;
\* request 1 and the streaming request hold no tool-role message.
C12_ToolMessagesAnswerCalls ==
    \A j \in DOMAIN requests :
        /\ ToolMessagesMatch(requests[j].messages)
        /\ (j = 1 \/ requests[j].stream) => ToolRole(requests[j].messages) = {}

C12_Witness ==
    /\ Len(requests) = 2
    /\ Cardinality(ToolRole(requests[2].messages)) = 2

\* C13: every message list sent to the provider has a system message first and
\* no system message anywhere else.
C13_OneSystemMessageFirst ==
    \A j \in DOMAIN requests :
        LET msgs == requests[j].messages
        IN  /\ msgs # << >>
            /\ msgs[1].role = "system"
            /\ \A m \in 2..Len(msgs) : msgs[m].role # "system"

C13_Witness ==
    /\ Len(requests) = 2
    /\ Len(requests[2].messages) >= 7
    /\ ToolRole(requests[2].messages) # {}

\* C14: tools_used is the ordered sequence of the names of the tools that were
\* dispatched, so its length is the number of tool-role messages of request 2.
C14_ToolsUsedAreDispatched ==
    (pc = "done" /\ has_tool_calls(response)) =>
        /\ result.tools_used =
             [a \in DOMAIN executed |-> response.tool_calls[executed[a]].function.name]
        /\ Len(result.tools_used) = Cardinality(ToolRole(requests[2].messages))

\* C15: after a tool round-trip the returned message, model and finish_reason
\* are those of response 2, whatever response 1 carried.
C15_ResultFromSecondResponse ==
    (pc = "done" /\ has_tool_calls(response)) =>
        /\ result.message = second_response.content
        /\ result.model = second_response.model
        /\ result.finish_reason = second_response.finish_reason

C15_Witness ==
    /\ pc = "done" /\ has_tool_calls(response)
    /\ response.content # second_response.content
    /\ response.model # second_response.model
    /\ response.finish_reason # second_response.finish_reason

\* C16: in a cancelled get_completion every executed tool dispatch was followed
\* by the issue of request 2, a cancellation delivered while response 1 is
\* awaited leaves zero tool dispatches, and nothing is returned.
C16_CancelDispatchesNothingUnused ==
    (mode = "complete" /\ stopped.at # "none") =>
        /\ (executed # << >>) => Len(requests) = 2
        /\ (stopped.at = "await_first") => executed = << >>
        /\ pc = "cancelled"
        /\ result = NoResult

C16_Witness ==
    /\ pc = "cancelled"
    /\ stopped.at = "await_second"
    /\ Len(executed) = 2

\* C17: once the consumer has abandoned the stream, no further chunk is read from
\* the provider and no further fragment, in particular no marker, is yielded.
C17_AbandonedStreamIsQuiet ==
    (mode = "stream" /\ stopped.at # "none") =>
        /\ yielded = stopped.yielded
        /\ chunks_read = stopped.chunks_read
        /\ pc = "stream_closed"

C17_Witness ==
    /\ pc = "stream_closed"
    /\ stopped.at = "yield_fragment"
    /\ Len(yielded) = 1
    /\ chunks_read < MaxChunks

(* ------------- interleaved invocations of openai_service -------------- *)
(* routes/messages.py creates one OpenAIService object; every request runs *)
(* get_completion or get_streaming_completion on it as a coroutine of its  *)
(* own.  Coroutines interleave only at their awaits, so each action below  *)
(* is the code between two awaits, for one of the invocations.             *)

NProcs == 2
Procs == 1..NProcs

\* (variant: the list messages is kept on the shared service object)
frame_shared(p) == 1

\* messages is a local variable: each invocation has its own frame
frame(p) == p

\* the for loop over tool_calls (lines 78-92), run from call i to the end
RECURSIVE run_tool_loop(_, _, _, _)
run_tool_loop(msgs, tool_calls, i, now) ==
    IF i > Len(tool_calls) THEN [raised |-> FALSE, exc |-> "", messages |-> msgs]
    ELSE LET tc == tool_calls[i]
             args == json_loads(tc.function.arguments)
         IN  IF args.raised THEN [raised |-> TRUE, exc |-> args.exc, messages |-> msgs]
             ELSE IF tc.function.name \notin FUNCTION_MAP
             THEN run_tool_loop(msgs, tool_calls, next_tool_call(i), now)
             ELSE LET function_response == CallFunction(tc.function.name, args, now)
                  IN  IF function_response.raised
                      THEN [raised |-> TRUE, exc |-> function_response.exc, messages |-> msgs]
                      ELSE run_tool_loop(Append(msgs, tool_message(tc, function_response.value)),
                                         tool_calls, next_tool_call(i), now)

\* what the provider did with a request: a response or a raised failure
Answered(r) == [ok |-> TRUE, response |-> r, err |-> ""]
Refused(e) == [ok |-> FALSE, response |-> NoResponse, err |-> e]
Pending == [ok |-> FALSE, response |-> NoResponse, err |-> ""]

EnvelopeWith(reason) == CHOOSE env \in Envelopes : env.finish_reason = reason

\* the provider's answers to request 1 of the interleaved invocations
ConcFirstOutcomes ==
    { Answered(Response(EnvelopeWith("stop"), << >>)),
      Answered(Response(EnvelopeWith("tool_calls"),
                        << ToolCall("call_1", "calcular_ferias",
                                    ObjText([salario_bruto |-> Num(3000)])),
                           ToolCall("call_2", "obter_obrigacoes_mes",
                                    ObjText(EmptyObj)) >>)),
      Refused("Rate limit reached") }

\* the provider's answers to request 2
ConcSecondOutcomes ==
    { Answered(Response(EnvelopeWith("length"), << >>)),
      Refused("Connection error.") }

\* the arguments of the interleaved invocations
ConcInputs ==
    { [mode |-> "complete", user_message |-> "Como calculo o DAS?",
       conversation_history |-> [given |-> FALSE, turns |-> << >>], use_tools |-> TRUE],
      [mode |-> "complete", user_message |-> "Quanto recebo de ferias?",
       conversation_history |->
          [given |-> TRUE,
           turns |-> << [user_message |-> "Oi",
                         assistant_message |-> "Ola, como posso ajudar?"] >>],
       use_tools |-> FALSE],
      [mode |-> "stream", user_message |-> "Quanto recebo de ferias?",
       conversation_history |-> [given |-> FALSE, turns |-> << >>], use_tools |-> FALSE] }

\* the chunks of the interleaved streams
ConcChunkContents == { "Ola", NoneText }

\* the state of one invocation before it starts
NewInvocation(input) ==
    [input |-> input, given |-> input, now |-> NoClock, pc |-> "start", requests |-> << >>,
     first |-> Pending, second |-> Pending, result |-> NoResult, error |-> NoError,
     yielded |-> << >>, chunks_read |-> 0]

\* the single-invocation variables rest while invocations interleave
SeqIdle ==
    /\ mode = "complete"
    /\ user_message = NoneText
    /\ conversation_history = [given |-> FALSE, turns |-> << >>]
    /\ use_tools = FALSE
    /\ pc = "idle"
    /\ messages = << >>
    /\ requests = << >>
    /\ response = NoResponse
    /\ second_response = NoResponse
    /\ ix = 0
    /\ executed = << >>
    /\ result = NoResult
    /\ error = NoError
    /\ cause = NoCause
    /\ yielded = << >>
    /\ chunks_read = 0
    /\ received = << >>
    /\ stream_failure = NoStreamFailure
    /\ full_response = << >>
    /\ stopped = NotStopped
    /\ route_pc = "idle"
    /\ background_tasks = << >>

InitConc ==
    /\ SeqIdle
    /\ DbIdle
    /\ ToolIdle
    /\ c_inv \in [Procs -> { NewInvocation(input) : input \in ConcInputs }]
    /\ c_frames = [p \in Procs |-> << >>]

Local(p) == c_inv[p]
MessagesOf(p) == c_frames[frame(p)]

\* lines 57-68 or 141-150: build the messages, issue the first request
ConcCall(p) ==
    /\ Local(p).pc = "start"
    /\ LET in == Local(p).input
           msgs == build_messages(in.user_message, in.conversation_history)
       IN  /\ c_frames' = [c_frames EXCEPT ![frame(p)] = msgs]
           /\ c_inv' = [c_inv EXCEPT ![p] =
                 [@ EXCEPT !.pc = IF in.mode = "complete" THEN "await_first" ELSE "streaming",
                           !.requests = << IF in.mode = "complete"
                                           THEN first_request(msgs, in.use_tools)
                                           ELSE stream_request(msgs) >>]]
    /\ UNCHANGED << seq_vars, db_vars, route_vars, tool_run >>

\* request 1 comes back: lines 70-100 (round-trip), 117-127 (direct), 129-130
ConcFirstOutcome(p) ==
    /\ Local(p).pc = "await_first"
    /\ \E o \in ConcFirstOutcomes :
         IF ~o.ok
         THEN /\ c_inv' = [c_inv EXCEPT ![p] =
                    [@ EXCEPT !.pc = "failed", !.first = o, !.error = wrap_exception(o.err)]]
              /\ UNCHANGED c_frames
         ELSE IF ~has_tool_calls(o.response)
         THEN /\ c_inv' = [c_inv EXCEPT ![p] =
                    [@ EXCEPT !.pc = "done", !.first = o, !.result = direct_result(o.response)]]
              /\ UNCHANGED c_frames
         ELSE \E now \in Clock :
              LET loop == run_tool_loop(Append(MessagesOf(p), assistant_message(o.response)),
                                        o.response.tool_calls, 1, now)
              IN  /\ c_frames' = [c_frames EXCEPT ![frame(p)] = loop.messages]
                  /\ c_inv' = [c_inv EXCEPT ![p] =
                        IF loop.raised
                        THEN [@ EXCEPT !.pc = "failed", !.first = o, !.now = now,
                                       !.error = wrap_exception(loop.exc)]
                        ELSE [@ EXCEPT !.pc = "await_second", !.first = o, !.now = now,
                                       !.requests = Append(@, second_request(loop.messages))]]
    /\ UNCHANGED << seq_vars, db_vars, route_vars, tool_run >>

\* request 2 comes back: lines 102-114, 129-130
ConcSecondOutcome(p) ==
    /\ Local(p).pc = "await_second"
    /\ \E o \in ConcSecondOutcomes :
         c_inv' = [c_inv EXCEPT ![p] =
            IF o.ok
            THEN [@ EXCEPT !.pc = "done", !.second = o,
                           !.result = round_trip_result(Local(p).first.response, o.response)]
            ELSE [@ EXCEPT !.pc = "failed", !.second = o, !.error = wrap_exception(o.err)]]
    /\ UNCHANGED << c_frames, seq_vars, db_vars, route_vars, tool_run >>

\* a chunk of the stream arrives: lines 152-154
ConcStreamChunk(p) ==
    /\ Local(p).pc = "streaming" /\ Local(p).chunks_read < MaxChunks
    /\ \E c \in ConcChunkContents :
         c_inv' = [c_inv EXCEPT ![p] =
            [@ EXCEPT !.chunks_read = @ + 1,
                      !.yielded = IF has_content(c) THEN Append(@, text_fragment(c)) ELSE @]]
    /\ UNCHANGED << c_frames, seq_vars, db_vars, route_vars, tool_run >>

\* the stream ends, or fails at setup or between chunks: lines 152-157
ConcStreamOver(p) ==
    /\ Local(p).pc = "streaming"
    /\ \/ c_inv' = [c_inv EXCEPT ![p] = [@ EXCEPT !.pc = "stream_end"]]
       \/ \E e \in ProviderErrors :
            c_inv' = [c_inv EXCEPT ![p] =
               [@ EXCEPT !.pc = "stream_end", !.first = Refused(e),
                         !.yielded = on_stream_exception(@, e)]]
    /\ UNCHANGED << c_frames, seq_vars, db_vars, route_vars, tool_run >>

NextConc ==
    \E p \in Procs :
        \/ ConcCall(p)
        \/ ConcFirstOutcome(p)
        \/ ConcSecondOutcome(p)
        \/ ConcStreamChunk(p)
        \/ ConcStreamOver(p)

SpecConc == InitConc /\ [][NextConc]_vars

(* what one invocation sends and returns when nothing else is in flight,  *)
(* as a function of its own arguments, the clock reading of its tools and  *)
(* the provider's answers to its own requests                              *)
AsksTools(o) == o.ok /\ has_tool_calls(o.response)
AloneMessages(in) == build_messages(in.user_message, in.conversation_history)
AloneFirstRequest(in) ==
    IF in.mode = "complete" THEN first_request(AloneMessages(in), in.use_tools)
    ELSE stream_request(AloneMessages(in))
AloneLoop(in, first, now) ==
    run_tool_loop(Append(AloneMessages(in), assistant_message(first.response)),
                  first.response.tool_calls, 1, now)
AloneFinalMessages(in, first, now) ==
    IF in.mode = "complete" /\ AsksTools(first) THEN AloneLoop(in, first, now).messages
    ELSE AloneMessages(in)
AloneRequests(in, first, now) ==
    IF in.mode = "complete" /\ AsksTools(first) /\ ~AloneLoop(in, first, now).raised
    THEN << AloneFirstRequest(in), second_request(AloneLoop(in, first, now).messages) >>
    ELSE << AloneFirstRequest(in) >>
AloneResult(in, first, second) ==
    IF in.mode = "complete" /\ first.ok /\ ~has_tool_calls(first.response)
    THEN direct_result(first.response)
    ELSE IF in.mode = "complete" /\ AsksTools(first) /\ second.ok
    THEN round_trip_result(first.response, second.response)
    ELSE NoResult
AloneError(in, first, second, now) ==
    IF in.mode # "complete" THEN NoError
    ELSE IF first # Pending /\ ~first.ok THEN wrap_exception(first.err)
    ELSE IF AsksTools(first) /\ AloneLoop(in, first, now).raised
    THEN wrap_exception(AloneLoop(in, first, now).exc)
    ELSE IF second # Pending /\ ~second.ok THEN wrap_exception(second.err)
    ELSE NoError

\* C18: however complete and stream invocations interleave at their awaits,
\* each one's message list, requests, result (usage sums and tools_used
\* included) and error are what it produces when run alone on its own
\* arguments and its own answers, and the history it was given is unchanged.
C18_InterleavedRunsAsAlone ==
    \A p \in DOMAIN c_inv :
        LET l == c_inv[p]
        IN  /\ l.input = l.given
            /\ l.pc = "start" => l.requests = << >>
            /\ l.pc # "start" =>
                 /\ MessagesOf(p) = AloneFinalMessages(l.input, l.first, l.now)
                 /\ l.requests = AloneRequests(l.input, l.first, l.now)
                 /\ l.result = AloneResult(l.input, l.first, l.second)
                 /\ l.error = AloneError(l.input, l.first, l.second, l.now)

\* one invocation finished its round-trip while another was inside its own
C18_Witness ==
    \E p, q \in DOMAIN c_inv :
        /\ p # q
        /\ c_inv[p].pc = "done" /\ AsksTools(c_inv[p].first)
        /\ c_inv[q].pc = "await_second"
        /\ c_inv[p].input # c_inv[q].input

Finished(l) == l.pc \in {"done", "failed"}

\* a deterministic provider stub: equal requests got equal answers
SameAnswers(a, b) ==
    /\ a.requests[1] = b.requests[1] => a.first = b.first
    /\ (Len(a.requests) = 2 /\ Len(b.requests) = 2 /\ a.requests[2] = b.requests[2])
          => a.second = b.second

\* C19: two complete invocations with use_tools = false, the same user message
\* and the same history, answered by a deterministic provider (and, where
\* tools ran, under the same clock reading), send the same requests and
\* return the same result or the same error, in whatever order they ran.
C19_RepeatedRunIsIdentical ==
    \A p, q \in DOMAIN c_inv :
        LET a == c_inv[p]
            b == c_inv[q]
        IN  ( /\ p # q
              /\ a.input.mode = "complete" /\ ~a.input.use_tools
              /\ a.input = b.input
              /\ Finished(a) /\ Finished(b)
              /\ SameAnswers(a, b)
              /\ a.now = b.now )
            => /\ a.requests = b.requests
               /\ a.result = b.result
               /\ a.error = b.error

\* the same tool-less call was made twice and answered twice
C19_Witness ==
    \E p, q \in DOMAIN c_inv :
        /\ p # q
        /\ c_inv[p].input = c_inv[q].input
        /\ c_inv[p].input.mode = "complete" /\ ~c_inv[p].input.use_tools
        /\ c_inv[p].pc = "done" /\ c_inv[q].pc = "done"
        /\ SameAnswers(c_inv[p], c_inv[q])
        /\ c_inv[p].result # NoResult

(* ---------------- app/db/database.py: conversations ------------------- *)
(* The table is the sequence db of its rows in order of creation; id is    *)
(* the autoincrement key and created_at grows with it.                     *)

MaxRows == 2
NUsers == 2
\* turns a session may already hold when the model starts
Stored == 4

\* users.id is an autoincrement primary key: the ids of existing users
UserIds == 1..NUsers
\* Python None / SQL NULL in an integer slot; it is falsy, as 0 is
NoUserId == 0
Sessions == { "s1", "s2" }
\* limit of the history endpoint, a query parameter
Limits == { 1, 2 }
\* limit=5 where a completion's history is fetched
COMPLETION_HISTORY_LIMIT == 5

RECURSIVE SelectRows(_, _, _, _)
\* the rows of the session, and of the user when the filter is on
SelectRows(rows, session_id, by_user, user_id) ==
    IF rows = << >> THEN << >>
    ELSE LET r == Head(rows)
             rest == SelectRows(Tail(rows), session_id, by_user, user_id)
         IN  IF r.session_id = session_id /\ (by_user => r.user_id = user_id)
             THEN << r >> \o rest
             ELSE rest

\* (variant: the rows are taken in ascending order and not turned round)
Reversed_kept(seq) == seq

\* order_by(created_at.desc()), and list(reversed(conversations))
Reversed(seq) == [i \in 1..Len(seq) |-> seq[Len(seq) + 1 - i]]
\* .limit(n) of a query
Limit(seq, n) == IF Len(seq) <= n THEN seq ELSE SubSeq(seq, 1, n)

\* (variant: the rows of the session whoever wrote them)
get_conversation_history_any_user(rows, session_id, limit, user_id) ==
    Reversed(Limit(Reversed(SelectRows(rows, session_id, FALSE, user_id)), limit))

\* get_conversation_history: "if user_id:" turns the filter on, the newest
\* limit rows are selected, and they are returned oldest first
get_conversation_history(rows, session_id, limit, user_id) ==
    Reversed(Limit(Reversed(SelectRows(rows, session_id, user_id # NoUserId, user_id)), limit))

\* the single-invocation and interleaving variables rest
OthersIdle == SeqIdle /\ ConcIdle

\* Stored earlier turns of user 1 in session "s1", as send_message saved them
StoredTurns == [i \in 1..Stored |-> Conversation(i, "s1", 1, "pergunta", "resposta")]

\* the table is empty, or holds the earlier turns of one session
InitDb ==
    /\ OthersIdle
    /\ ToolIdle
    /\ db \in { << >>, StoredTurns }
    /\ history_request = NoHistoryRequest
    /\ history_result = << >>

\* save_conversation as the routes call it, or with user_id left at None
SaveConversation ==
    /\ Len(db) < MaxRows + (IF Len(db) >= Stored /\ SubSeq(db, 1, Stored) = StoredTurns
                            THEN Stored ELSE 0)
    /\ \E session_id \in Sessions, user_id \in UserIds \cup {NoUserId} :
         db' = save_conversation(db, session_id, "pergunta", "resposta", user_id)
    /\ UNCHANGED << history_request, history_result, seq_vars, conc_vars, route_vars,
                    tool_run >>

\* routes/messages.py get_history, current_user being any existing user
GetHistory ==
    /\ \E session_id \in Sessions, limit \in Limits, current_user \in UserIds :
         /\ history_request' = [route |-> "get_history", session_id |-> session_id,
                                limit |-> limit, user_id |-> current_user]
         /\ history_result' = get_conversation_history(db, session_id, limit, current_user)
    /\ UNCHANGED << db, seq_vars, conc_vars, route_vars, tool_run >>

\* send_message and send_message_stream with use_history set
FetchCompletionHistory ==
    /\ \E session_id \in Sessions, current_user \in UserIds :
         /\ history_request' = [route |-> "send_message", session_id |-> session_id,
                                limit |-> COMPLETION_HISTORY_LIMIT, user_id |-> current_user]
         /\ history_result' = get_conversation_history(db, session_id,
                                                       COMPLETION_HISTORY_LIMIT, current_user)
    /\ UNCHANGED << db, seq_vars, conc_vars, route_vars, tool_run >>

NextDb ==
    \/ SaveConversation
    \/ GetHistory
    \/ FetchCompletionHistory

SpecDb == InitDb /\ [][NextDb]_vars

\* C20: whatever the table holds, every conversation that the history
\* endpoint or the fetch of a completion's history returns for a user was
\* written by that user.
C20_HistoryOnlyOfRequester ==
    \A i \in DOMAIN history_result : history_result[i].user_id = history_request.user_id

\* a user read a session and got rows, and another user's row of that
\* session is newer than the oldest row returned
C20_Witness ==
    /\ history_result # << >>
    /\ \E i \in DOMAIN db :
         /\ db[i].session_id = history_request.session_id
         /\ db[i].user_id \in UserIds \ {history_request.user_id}
         /\ i > history_result[1].id

(* -------------- the registered functions called on their own ---------- *)
(* each function of FUNCTION_MAP called with keyword arguments drawn       *)
(* around every boundary of its tables and validations                     *)

\* a call that is about to be made: function, keyword arguments, clock
ToolRuns ==
    LET das == { [receita_bruta_12_meses |-> Num(r), anexo |-> Num(a)] :
                   r \in { 0, 1, 180000, 180001, 200000, 360000, 360001, 720000, 720001,
                           1800000, 1800001, 3600000, 3600001, 4800000, 4800001 },
                   a \in 0..6 }
        ferias == { [salario_bruto |-> Num(sal), dias_ferias |-> Num(d),
                     vende_10_dias |-> Bool(v)] :
                      sal \in { 1412, 3000 }, d \in { 0, 1, 15, 29, 30, 31 }, v \in BOOLEAN }
                  \cup { [salario_bruto |-> Num(3000)] }
        obrigacoes == { [mes |-> Num(m)] : m \in -1..14 } \cup { EmptyObj }
        regime == { [receita_anual |-> Num(r)] : r \in { 360000, 4800001, 78000001 } }
        call(name, argsets) ==
            { [name |-> name, args |-> args, now |-> now, done |-> FALSE, out |-> Raise("")] :
                args \in argsets, now \in Clock }
    IN  call("calcular_das_simples_nacional", das) \cup call("calcular_ferias", ferias)
        \cup call("obter_obrigacoes_mes", obrigacoes)
        \cup call("verificar_tipo_regime_tributario", regime)

InitTools ==
    /\ OthersIdle
    /\ DbIdle
    /\ tool_run \in ToolRuns

\* the function is called and returns or raises
DirectCall(name) ==
    /\ tool_run.name = name /\ ~tool_run.done
    /\ tool_run' = [tool_run EXCEPT
                      !.done = TRUE,
                      !.out = CallFunction(name, json_loads(ObjText(tool_run.args)),
                                           tool_run.now)]
    /\ UNCHANGED << seq_vars, conc_vars, db_vars, route_vars >>

NextTools ==
    \/ DirectCall("calcular_das_simples_nacional")
    \/ DirectCall("calcular_ferias")
    \/ DirectCall("obter_obrigacoes_mes")
    \/ DirectCall("verificar_tipo_regime_tributario")

SpecTools == InitTools /\ [][NextTools]_vars

\* C21: for an anexo in 1..5 and a receita of at most 4,800,000 the function
\* returns a calculation on the first bracket whose ceiling is >= the receita
\* (its nominal rate and deduction), with an effective rate strictly below
\* the nominal one where the deduction is positive; for any other anexo or a
\* larger receita it returns an erro payload.
C21_DasBracketAndErrors ==
    (tool_run.done /\ tool_run.name = "calcular_das_simples_nacional") =>
        LET receita == tool_run.args.receita_bruta_12_meses.n
            anexo == tool_run.args.anexo.n
            out == tool_run.out
        IN  /\ ~out.raised
            /\ IF anexo \in 1..5 /\ receita <= 4800000
               THEN /\ "erro" \notin DOMAIN out.value
                    /\ \E i \in DOMAIN tabelas[anexo].faixas :
                         LET faixa == tabelas[anexo].faixas[i]
                         IN  /\ receita <= faixa.ate
                             /\ \A j \in 1..(i - 1) : receita > tabelas[anexo].faixas[j].ate
                             /\ out.value.aliquota_nominal = faixa.aliquota
                             /\ out.value.valor_deducao = faixa.deducao
                             /\ faixa.deducao > 0 =>
                                  out.value.aliquota_efetiva.num < faixa.aliquota * receita
               ELSE "erro" \in DOMAIN out.value

\* C22: calcular_ferias returns an erro payload for dias_ferias outside
\* 1..30 and for a sale with fewer than 30 days; otherwise dias_gozo and
\* dias_vendidos are dias_ferias and 0 without sale, 20 and 10 with it, they
\* add up to dias_ferias, valor_ferias is salario_bruto / 30 * dias_gozo and
\* terco_constitucional is a third of it (centavos, rounded down).
C22_FeriasDaysAndAmounts ==
    (tool_run.done /\ tool_run.name = "calcular_ferias") =>
        LET dias == Arg(tool_run.args, "dias_ferias", Num(30)).n
            vende == Truthy(Arg(tool_run.args, "vende_10_dias", Bool(FALSE)))
            salario == tool_run.args.salario_bruto.n
            out == tool_run.out
        IN  /\ ~out.raised
            /\ IF dias < 1 \/ dias > 30 \/ (vende /\ dias < 30)
               THEN "erro" \in DOMAIN out.value
               ELSE /\ "erro" \notin DOMAIN out.value
                    /\ out.value.dias_gozo + out.value.dias_vendidos = dias
                    /\ ~vende => out.value.dias_gozo = dias /\ out.value.dias_vendidos = 0
                    /\ vende => out.value.dias_gozo = 20 /\ out.value.dias_vendidos = 10
                    /\ out.value.valor_ferias = (100 * salario * out.value.dias_gozo) \div 30
                    /\ out.value.terco_constitucional = out.value.valor_ferias \div 3

\* 30 days sold in part: 20 days of rest on a salary of 3000 are worth 2000.00
C22_Witness ==
    /\ tool_run.done /\ tool_run.name = "calcular_ferias"
    /\ "vende_10_dias" \in DOMAIN tool_run.args /\ Truthy(tool_run.args.vende_10_dias)
    /\ tool_run.args.salario_bruto.n = 3000
    /\ "erro" \notin DOMAIN tool_run.out.value
    /\ tool_run.out.value.dias_gozo = 20
    /\ tool_run.out.value.valor_ferias = 200000

\* C23: obter_obrigacoes_mes raises for no integer mes; outside 1..12 it
\* returns an erro payload, and inside it returns the six monthly obligations
\* followed by the annual ones of that month, total_obrigacoes being the
\* length of that list.
C23_ObrigacoesTotalOrErro ==
    (tool_run.done /\ tool_run.name = "obter_obrigacoes_mes" /\ "mes" \in DOMAIN tool_run.args) =>
        LET mes == tool_run.args.mes.n
            out == tool_run.out
            anuais == IF mes \in DOMAIN obrigacoes_anuais THEN obrigacoes_anuais[mes] ELSE << >>
        IN  /\ ~out.raised
            /\ IF mes < 1 \/ mes > 12
               THEN "erro" \in DOMAIN out.value
               ELSE /\ "erro" \notin DOMAIN out.value
                    /\ out.value.obrigacoes = obrigacoes_mensais \o anuais
                    /\ out.value.total_obrigacoes = Len(out.value.obrigacoes)
                    /\ out.value.total_obrigacoes = 6 + Len(anuais)

\* month 13 was asked for and an erro payload came back
C23_Witness ==
    /\ tool_run.done /\ tool_run.name = "obter_obrigacoes_mes"
    /\ "mes" \in DOMAIN tool_run.args /\ tool_run.args.mes.n = 13
    /\ ~tool_run.out.raised
    /\ "erro" \in DOMAIN tool_run.out.value

\* C24: one get_completion moves only forward through: messages assembled
\* and request 1 issued, response 1 received, then done, or the assistant
\* message appended, the tool calls visited one by one in emitted order,
\* request 2 issued once the last one is behind, response 2 received, done
\* (or a failure out of any of these).  No tool is dispatched before response
\* 1 is in, and no position is taken twice.
C24_PhasesInOrder ==
    [][ mode = "complete" =>
          /\ << pc, pc' >> \in
                { << "start", "await_first" >>,
                  << "await_first", "done" >>, << "await_first", "tool_loop" >>,
                  << "await_first", "failed" >>, << "await_first", "cancelled" >>,
                  << "tool_loop", "tool_loop" >>, << "tool_loop", "await_second" >>,
                  << "tool_loop", "failed" >>,
                  << "await_second", "done" >>, << "await_second", "failed" >>,
                  << "await_second", "cancelled" >>,
                  << "done", "done" >>, << "failed", "failed" >>,
                  << "cancelled", "cancelled" >> }
          /\ (pc = "tool_loop" /\ pc' = "tool_loop") => ix' = ix + 1
          /\ pc \in {"done", "failed", "cancelled"} => UNCHANGED seq_vars
          /\ messages' # messages =>
                \/ pc = "start" /\ messages = << >>
                \/ pc = "await_first" /\ pc' = "tool_loop"
                      /\ messages' = Append(messages, assistant_message(response'))
                \/ pc = "tool_loop" /\ executed' = Append(executed, ix)
          /\ executed' # executed =>
                /\ pc = "tool_loop" /\ response # NoResponse /\ Len(requests) = 1
                /\ executed' = Append(executed, ix)
                /\ \A a \in DOMAIN executed : executed[a] < ix
          /\ requests' # requests =>
                \/ pc = "start" /\ requests = << >> /\ Len(requests') = 1
                      /\ requests'[1].messages = messages'
                \/ /\ pc = "tool_loop" /\ pc' = "await_second"
                   /\ ix > Len(response.tool_calls)
                   /\ requests' = Append(requests, second_request(messages))
          /\ response' # response => pc = "await_first" /\ Len(requests) = 1
          /\ second_response' # second_response => pc = "await_second" /\ pc' = "done"
          /\ result' # result => pc' = "done" /\ pc \in {"await_first", "await_second"}
      ]_vars

\* a round-trip that dispatched its two tool calls is done
C24_Witness ==
    /\ mode = "complete" /\ pc = "done"
    /\ executed = << 1, 2 >>
    /\ Len(requests) = 2
    /\ messages = requests[2].messages

\* C25: from request 1 on, the list messages keeps the list sent in request
\* 1 as its prefix, unchanged; the list sent in request 2 is that prefix, then
\* the assistant message of response 1 with content, tool calls and ids as
\* received, then tool-role messages only.
C25_RoundTripOnlyAppends ==
    (mode = "complete" /\ requests # << >>) =>
        LET sent == requests[1].messages
            n == Len(sent)
        IN  /\ Len(messages) >= n
            /\ SubSeq(messages, 1, n) = sent
            /\ Len(requests) = 2 =>
                 LET again == requests[2].messages
                 IN  /\ Len(again) >= n + 1
                     /\ SubSeq(again, 1, n) = sent
                     /\ again[n + 1] = [role |-> "assistant", content |-> response.content,
                                        tool_calls |-> response.tool_calls]
                     /\ \A j \in (n + 2)..Len(again) : again[j].role = "tool"

\* request 2 went out after a history of two turns and two dispatched calls
C25_Witness ==
    /\ Len(requests) = 2
    /\ Len(requests[1].messages) = 6
    /\ Len(requests[2].messages) = 9
    /\ response.tool_calls[1].id # response.tool_calls[2].id

\* C26: the fragments yielded by the stream (those before the error marker,
\* when the provider failed) are the delta contents read from the provider,
\* in the order read, without the empty and the absent ones, one fragment per
\* content; a content just read is already yielded while the generator is
\* suspended, so no later chunk is read before it.
C26_FragmentsFollowProvider ==
    mode = "stream" =>
        LET kept(c) == c # NoneText /\ c # ""
            contents == SelectSeq(received, kept)
            out == IF stream_failure.failed THEN stream_failure.before ELSE yielded
        IN  /\ Len(received) = chunks_read
            /\ Len(out) = Len(contents)
            /\ \A i \in 1..Len(out) : out[i] = << contents[i] >>
            /\ pc = "yield_fragment" =>
                 /\ kept(received[Len(received)])
                 /\ yielded[Len(yielded)] = << received[Len(received)] >>

\* the provider sent an absent content and then a text, and the stream ended
C26_Witness ==
    /\ mode = "stream" /\ pc = "stream_end"
    /\ received = << NoneText, "Ola" >>
    /\ yielded = << << "Ola" >> >>

\* C27: a complete invocation eventually is done, has failed or was cancelled
\* by its caller, having dispatched no more functions than response 1 holds
\* tool calls (none if it never got response 1); a stream invocation
\* eventually ends its fragment sequence, by exhaustion or because the
\* consumer closed it.
C27_EventuallyEnds ==
    <>(\/ /\ mode = "complete"
          /\ pc \in {"done", "failed", "cancelled"}
          /\ Len(executed) <= Len(response.tool_calls)
       \/ /\ mode = "stream"
          /\ pc \in {"stream_end", "stream_closed"})

\* an invocation without history is done after two tool calls, one dispatch
\* each
C27_Witness ==
    /\ mode = "complete" /\ pc = "done"
    /\ ~conversation_history.given
    /\ Len(response.tool_calls) = 2
    /\ Len(executed) = 2

\* C28: a streaming request adds at most one conversation, and only once the
\* fragment sequence is exhausted; its assistant message is the concatenation
\* of all the fragments yielded to the client, the error marker included when
\* the provider failed; a stream the client abandoned adds none.
C28_StreamSavedOnceAtEnd ==
    mode = "stream" =>
        /\ Len(db) <= 1
        /\ (db # << >>) <=> (route_pc = "saved")
        /\ route_pc = "saved" =>
             /\ pc = "stream_end"
             /\ db[1].user_message = user_message
             /\ db[1].assistant_message = Concat(yielded)
             /\ stream_failure.failed =>
                  yielded[Len(yielded)] = error_fragment(stream_failure.upstream)
        /\ pc = "stream_closed" => db = << >>

\* the provider failed after one fragment; fragment and marker were saved
C28_Witness ==
    /\ mode = "stream" /\ route_pc = "saved"
    /\ stream_failure.failed
    /\ Len(yielded) = 2
    /\ Len(db) = 1

\* C29: in the non-streaming route one turn is scheduled exactly when
\* get_completion has returned, with the returned message as assistant text,
\* and at most one conversation comes of it; when get_completion fails no
\* turn is scheduled or saved and the request ends as HTTP 500; a cancelled
\* request schedules nothing either.
C29_SavedIffCompleted ==
    mode = "complete" =>
        /\ Len(db) <= 1
        /\ route_pc \in {"handling", "http_500"} => background_tasks = << >> /\ db = << >>
        /\ pc \in {"failed", "cancelled"} => route_pc \in {"handling", "http_500"}
        /\ route_pc = "http_500" => pc = "failed"
        /\ route_pc \in {"returned", "task_ran"} => pc = "done"
        /\ route_pc = "returned" =>
             /\ db = << >>
             /\ background_tasks = << [session_id |-> "s1", user_msg |-> user_message,
                                       assistant_msg |-> result.message, user_id |-> 1] >>
        /\ route_pc = "task_ran" =>
             /\ background_tasks = << >>
             /\ db # << >> =>
                  /\ db[1].user_message = user_message
                  /\ db[1].assistant_message = result.message

\* the scheduled turn of a request answered after two tool calls was saved
C29_Witness ==
    /\ mode = "complete" /\ route_pc = "task_ran"
    /\ Len(executed) = 2
    /\ Len(db) = 1
    /\ db[1].assistant_message = result.message

\* C30 as stated: a read returns the min(n, count) newest turns of the
\* session, oldest first, count being the number of turns of the session.
C30_NewestTurnsOfSession ==
    [][ db' = db =>
          LET req == history_request'
              res == history_result'
              idx == {i \in DOMAIN db : db[i].session_id = req.session_id}
              k == IF req.limit <= Cardinality(idx) THEN req.limit ELSE Cardinality(idx)
          IN  /\ Len(res) = k
              /\ \A j \in 1..Len(res) : res[j].id \in idx /\ res[j] = db[res[j].id]
              /\ \A j \in 1..(Len(res) - 1) : res[j].id < res[j + 1].id
              /\ \A i \in idx : (\A j \in 1..Len(res) : res[j].id # i) =>
                                   \A j \in 1..Len(res) : i < res[j].id ]_vars

\* C30: a read for a user returns the min(n, count) newest turns that this
\* user wrote in the session, oldest first and with no turn of the user left
\* out between them; with the limit of the completion routes the message
\* list assembled from it has at most 2 * 5 + 2 messages.
C30_NewestTurnsOfRequester ==
    [][ db' = db =>
          LET req == history_request'
              res == history_result'
              idx == {i \in DOMAIN db : /\ db[i].session_id = req.session_id
                                        /\ db[i].user_id = req.user_id}
              k == IF req.limit <= Cardinality(idx) THEN req.limit ELSE Cardinality(idx)
          IN  /\ Len(res) = k
              /\ \A j \in 1..Len(res) : res[j].id \in idx /\ res[j] = db[res[j].id]
              /\ \A j \in 1..(Len(res) - 1) : res[j].id < res[j + 1].id
              /\ \A i \in idx : (\A j \in 1..Len(res) : res[j].id # i) =>
                                   \A j \in 1..Len(res) : i < res[j].id
              /\ req.route = "send_message" =>
                   Len(build_messages("pergunta", [given |-> TRUE, turns |-> res]))
                       <= 2 * COMPLETION_HISTORY_LIMIT + 2 ]_vars

\* a completion's history was fetched from a session where the user had
\* written more turns than the limit: the newest five came back
C30_Witness ==
    /\ history_request.route = "send_message"
    /\ Len(history_result) = COMPLETION_HISTORY_LIMIT
    /\ \E i \in DOMAIN db :
         /\ db[i].session_id = history_request.session_id
         /\ db[i].user_id = history_request.user_id
         /\ i < history_result[1].id
    /\ history_result[COMPLETION_HISTORY_LIMIT].id = Len(db)

====
